---- MODULE Spec2Model ----
(***************************************************************************)
(* A model of torchaudio.datasets.dr_vctk.DR_VCTK: the constructor's       *)
(* provisioning policy (lines 40-63), the manifest parser _load_config,    *)
(* the sorted sample index, and indexed access __getitem__ / __len__.      *)
(*                                                                         *)
(* A Python str is modelled as a tuple of one-character strings, so that   *)
(* str.strip, str.split, int(), file line iteration and sorted() are       *)
(* computed on characters as Python computes them.                         *)
(***************************************************************************)
EXTENDS Integers, Sequences, FiniteSets, TLC

\* ------------------------------------------------------------- bounds
\* The number of lines a manifest file has after its first header line.
MaxRows == 2

\* ------------------------------------------------------ Python strings
TAB == "\t"
NL == "\n"
SP == " "

\* The code point of each character the model uses (ord).
Ord(c) ==
    CASE c = TAB -> 9
      [] c = NL  -> 10
      [] c = SP  -> 32
      [] c = "+" -> 43
      [] c = "-" -> 45
      [] c = "." -> 46
      [] c = "1" -> 49
      [] c = "2" -> 50
      [] c = "D" -> 68
      [] c = "E" -> 69
      [] c = "_" -> 95
      [] c = "a" -> 97
      [] c = "b" -> 98
      [] c = "h" -> 104
      [] c = "w" -> 119
      [] c = "x" -> 120

\* str.isspace for one character.
IsSpace(c) == c \in {TAB, NL, SP}

\* str < str: lexicographic comparison by code point, a proper prefix first.
RECURSIVE StrLess(_, _)
StrLess(s, t) ==
    IF t = <<>> THEN FALSE
    ELSE IF s = <<>> THEN TRUE
    ELSE IF Ord(Head(s)) < Ord(Head(t)) THEN TRUE
    ELSE IF Ord(Head(s)) > Ord(Head(t)) THEN FALSE
    ELSE StrLess(Tail(s), Tail(t))

RECURSIVE LStrip(_)
LStrip(s) == IF s # <<>> /\ IsSpace(Head(s)) THEN LStrip(Tail(s)) ELSE s

RECURSIVE RStrip(_)
RStrip(s) ==
    IF s # <<>> /\ IsSpace(s[Len(s)]) THEN RStrip(SubSeq(s, 1, Len(s) - 1)) ELSE s

\* str.strip(): leading and trailing whitespace (tabs and newlines included)
\* removed.
Strip(s) == RStrip(LStrip(s))

\* str.split(sep) for a one-character separator: the pieces between the
\* separators, at least one piece, empty pieces kept.
RECURSIVE SplitFrom(_, _, _)
SplitFrom(s, sep, cur) ==
    IF s = <<>> THEN <<cur>>
    ELSE IF Head(s) = sep THEN <<cur>> \o SplitFrom(Tail(s), sep, <<>>)
    ELSE SplitFrom(Tail(s), sep, Append(cur, Head(s)))

Split(s, sep) == SplitFrom(s, sep, <<>>)

\* sep.join(parts).
RECURSIVE Join(_, _)
Join(parts, sep) ==
    IF parts = <<>> THEN <<>>
    ELSE IF Len(parts) = 1 THEN parts[1]
    ELSE parts[1] \o <<sep>> \o Join(Tail(parts), sep)

IsDigit(c) == c \in {"1", "2"}

DigitValue(c) == IF c = "1" THEN 1 ELSE 2

\* The digits of an int() literal after the sign: digits, with single
\* underscores allowed between digits.
RECURSIVE IsDigits(_, _)
IsDigits(s, prevWasDigit) ==
    IF s = <<>> THEN prevWasDigit
    ELSE IF IsDigit(Head(s)) THEN IsDigits(Tail(s), TRUE)
    ELSE IF Head(s) = "_" THEN prevWasDigit /\ IsDigits(Tail(s), FALSE)
    ELSE FALSE

Unsigned(s) == IF s # <<>> /\ Head(s) \in {"+", "-"} THEN Tail(s) ELSE s

\* Whether int(s) returns (rather than raising ValueError).
IsIntLiteral(s) == IsDigits(Unsigned(Strip(s)), FALSE)

RECURSIVE DigitsValue(_, _)
DigitsValue(s, acc) ==
    IF s = <<>> THEN acc
    ELSE IF Head(s) = "_" THEN DigitsValue(Tail(s), acc)
    ELSE DigitsValue(Tail(s), 10 * acc + DigitValue(Head(s)))

\* int(s) for a literal int() accepts.
IntValue(s) ==
    LET t == Strip(s)
        v == DigitsValue(Unsigned(t), 0)
    IN  IF t # <<>> /\ Head(t) = "-" THEN 0 - v ELSE v

\* Iterating a text file: each line up to and including its "\n"; the last
\* line may lack one; an empty file has no lines.
RECURSIVE LineFrom(_, _)
LineFrom(s, cur) ==
    IF s = <<>> THEN (IF cur = <<>> THEN <<>> ELSE <<cur>>)
    ELSE IF Head(s) = NL THEN <<Append(cur, NL)>> \o LineFrom(Tail(s), <<>>)
    ELSE LineFrom(Tail(s), Append(cur, Head(s)))

FileLines(content) == LineFrom(content, <<>>)

\* A variant of Sorted in descending order (sorted(..., reverse=True)).
RECURSIVE Sorted_descending(_)
Sorted_descending(S) ==
    IF S = {} THEN <<>>
    ELSE LET m == CHOOSE a \in S : \A b \in S \ {a} : StrLess(b, a)
         IN  <<m>> \o Sorted_descending(S \ {m})

\* sorted(keys): the elements of a finite set of strings in ascending order.
RECURSIVE Sorted(_)
Sorted(S) ==
    IF S = {} THEN <<>>
    ELSE LET m == CHOOSE a \in S : \A b \in S \ {a} : StrLess(a, b)
         IN  <<m>> \o Sorted(S \ {m})

\* ------------------------------------------------------- module constants
\* _SUPPORTED_SUBSETS.
_SUPPORTED_SUBSETS == {"train", "test"}

\* The subset arguments a caller passes: the supported ones and one other.
SubsetArgs == _SUPPORTED_SUBSETS \cup {"valid"}

\* The url arguments a caller passes: the default _URL and a custom one.
UrlArgs == {"_URL", "custom"}

\* ------------------------------------------------------ manifest files
\* One manifest row: the fields joined by tabs, ended by a newline.
Row(fields) == Join(fields, TAB) \o <<NL>>

FnA == <<"a", "_", "1", ".", "w">>
FnA2 == <<"a", "_", "2", ".", "w">>
FnNoUnderscore == <<"b", "1", ".", "w">>
FnTwoDots == <<"a", "_", "1", ".", "w", ".", "w">>
FnTwoUnderscores == <<"a", "_", "1", "_", "2", ".", "w">>
FnNoDot == <<"b", "_", "2">>
FnDotFirst == <<"a", ".", "b", "_", "1">>

\* A header line: column titles, not three tab-separated fields.
HeaderLine == Row(<< <<"h">> >>)

\* The lines that follow the first header line: a second header line, rows of
\* the documented shape (two of them for one filename), rows whose filename
\* departs from {speaker}_{utterance}.{ext}, and lines that depart from the
\* three-column shape (a trailing tab, no newline, a blank line, two and four
\* fields, a channel that is no integer).
LinePool ==
    { HeaderLine,
      Row(<<FnA, <<"D">>, <<"1">> >>),
      Row(<<FnA, <<"E">>, <<SP, "2">> >>),
      Row(<<FnNoUnderscore, <<"D">>, <<"1">> >>),
      Row(<<FnTwoDots, <<"D">>, <<"1">> >>),
      Row(<<FnTwoUnderscores, <<"D">>, <<"1">> >>),
      Row(<<FnNoDot, <<"D">>, <<"1">> >>),
      Row(<<FnDotFirst, <<"D">>, <<"1">> >>),
      Row(<<FnA2, <<"D">>, <<"1">>, <<>> >>),
      Join(<<FnA2, <<"E">>, <<"2">> >>, TAB),
      <<NL>>,
      Row(<<FnA, <<"D">> >>),
      Row(<<FnA, <<"D">>, <<"1">>, <<"D">> >>),
      Row(<<FnA, <<"D">>, <<"x">> >>) }

RECURSIVE Concat(_)
Concat(ss) == IF ss = <<>> THEN <<>> ELSE Head(ss) \o Concat(Tail(ss))

\* The contents the config file may have: nothing, or a header line and up to
\* MaxRows pool lines.
ManifestFiles ==
    {<<>>} \cup
    { HeaderLine \o Concat(ls) :
        ls \in UNION { [1..k -> LinePool] : k \in 0..MaxRows } }

\* ------------------------------------------------------------ the dict
EmptyDict == [k \in {} |-> <<>>]

\* d[key] = value.
DictSet(d, key, value) ==
    [k \in DOMAIN d \cup {key} |-> IF k = key THEN value ELSE d[k]]

\* ------------------------------------------------------- _load_config
\* A variant of skip_rows with one header line for every subset.
skip_rows_one(sub) == 1

\* skip_rows = 2 if self._subset == "train" else 1.
skip_rows(sub) == IF sub = "train" THEN 2 ELSE 1

\* The body of the loop for one line that is not skipped: the unpacking of
\* line.strip().split("\t") into three names and int(channel_id) raise
\* ValueError, otherwise config[filename] = (source, int(channel_id)).
LineRaises(line) ==
    LET fields == Split(Strip(line), TAB)
    IN  Len(fields) # 3 \/ ~IsIntLiteral(fields[3])

LineStore(config, line) ==
    LET fields == Split(Strip(line), TAB)
    IN  DictSet(config, fields[1], <<fields[2], IntValue(fields[3])>>)

\* A variant of ConfigLoop that skips a line it cannot unpack and goes on.
RECURSIVE ConfigLoop_skipping(_, _, _, _)
ConfigLoop_skipping(lines, k, sub, config) ==
    IF k > Len(lines) THEN [raised |-> FALSE, config |-> config]
    ELSE IF k - 1 < skip_rows(sub) \/ lines[k] = <<>> \/ LineRaises(lines[k])
         THEN ConfigLoop_skipping(lines, k + 1, sub, config)
    ELSE ConfigLoop_skipping(lines, k + 1, sub, LineStore(config, lines[k]))

\* for i, line in enumerate(f): lines[k] is the line with i = k - 1.
RECURSIVE ConfigLoop(_, _, _, _)
ConfigLoop(lines, k, sub, config) ==
    IF k > Len(lines) THEN [raised |-> FALSE, config |-> config]
    ELSE IF k - 1 < skip_rows(sub) \/ lines[k] = <<>>
         THEN ConfigLoop(lines, k + 1, sub, config)
    ELSE IF LineRaises(lines[k]) THEN [raised |-> TRUE, config |-> EmptyDict]
    ELSE ConfigLoop(lines, k + 1, sub, LineStore(config, lines[k]))

_load_config(content, sub) == ConfigLoop(FileLines(content), 1, sub, EmptyDict)

\* --------------------------------------------------------------- state
VARIABLES
    pc,              \* where the caller is: no instance ("idle"), a line of
                     \* __init__ ("L40" .. "L62"), an instance ("ready"), or
                     \* __init__ raised ("failed")
    subset,          \* the constructor's arguments
    download,
    url,
    pathIsDir,       \* self._path.is_dir(): the dataset root is on disk
    archive,         \* root/DR-VCTK.zip: "absent", "good" (its md5 is
                     \* _CHECKSUM) or "corrupt"
    fsAtCall,        \* <<pathIsDir, archive>> when __init__ was called
    calls,           \* the filesystem checks and collaborator calls __init__
                     \* has made, in order
    configFile,      \* the content _load_config read
    _config,         \* self._config
    _filename_list,  \* self._filename_list
    raised,          \* the exception __init__ raised, "" if none
    ret              \* the last call on the instance: its index, whether the
                     \* two decodes would return, and its outcome

vars ==
    <<pc, subset, download, url, pathIsDir, archive, fsAtCall, calls,
      configFile, _config, _filename_list, raised, ret>>

fs == <<pathIsDir, archive>>
args == <<subset, download, url>>
instance == <<configFile, _config, _filename_list>>

NoRet ==
    [op |-> "none", n |-> 0, decodes |-> <<TRUE, TRUE>>, raised |-> "",
     value |-> <<>>]

Init ==
    /\ pc = "idle"
    /\ subset = "train"
    /\ download = FALSE
    /\ url = "_URL"
    /\ pathIsDir \in BOOLEAN
    /\ archive \in {"absent", "good", "corrupt"}
    /\ fsAtCall = <<pathIsDir, archive>>
    /\ calls = <<>>
    /\ configFile = <<>>
    /\ _config = EmptyDict
    /\ _filename_list = <<>>
    /\ raised = ""
    /\ ret = NoRet

\* __init__ raises exc.
Raise(exc) ==
    /\ pc' = "failed"
    /\ raised' = exc

\* ------------------------------------------------------------ __init__
\* DR_VCTK(root, subset, download=..., url=...) is called; an earlier
\* instance, if any, is dropped.
Construct(s, d, u) ==
    /\ pc \in {"idle", "ready", "failed"}
    /\ pc' = "L40"
    /\ subset' = s
    /\ download' = d
    /\ url' = u
    /\ fsAtCall' = <<pathIsDir, archive>>
    /\ calls' = <<>>
    /\ configFile' = <<>>
    /\ _config' = EmptyDict
    /\ _filename_list' = <<>>
    /\ raised' = ""
    /\ ret' = NoRet
    /\ UNCHANGED fs

\* A variant of CheckSubset without the check of lines 40-43.
CheckSubset_absent ==
    /\ pc = "L40"
    /\ pc' = "L54"
    /\ UNCHANGED <<args, fs, fsAtCall, calls, instance, raised, ret>>

\* Lines 40-43: if subset not in _SUPPORTED_SUBSETS: raise RuntimeError.
CheckSubset ==
    /\ pc = "L40"
    /\ IF subset \notin _SUPPORTED_SUBSETS
       THEN Raise("RuntimeError: subset")
       ELSE pc' = "L54" /\ UNCHANGED raised
    /\ UNCHANGED <<args, fs, fsAtCall, calls, instance, ret>>

\* A variant of CheckPath that provisions whatever is_dir() returns.
CheckPath_always ==
    /\ pc = "L54"
    /\ calls' = Append(calls, <<"is_dir", pathIsDir>>)
    /\ pc' = "L55"
    /\ UNCHANGED <<args, fs, fsAtCall, instance, raised, ret>>

\* Line 54: if not self._path.is_dir().
CheckPath ==
    /\ pc = "L54"
    /\ calls' = Append(calls, <<"is_dir", pathIsDir>>)
    /\ pc' = IF pathIsDir THEN "L62" ELSE "L55"
    /\ UNCHANGED <<args, fs, fsAtCall, instance, raised, ret>>

\* A variant of CheckArchive that downloads whatever the download flag.
CheckArchive_noflag ==
    /\ pc = "L55"
    /\ calls' = Append(calls, <<"is_file", archive # "absent">>)
    /\ pc' = IF archive # "absent" THEN "L59" ELSE "L58"
    /\ UNCHANGED <<args, fs, fsAtCall, instance, raised, ret>>

\* Lines 55-57: if not archive.is_file(): if not download: raise.
CheckArchive ==
    /\ pc = "L55"
    /\ calls' = Append(calls, <<"is_file", archive # "absent">>)
    /\ IF archive # "absent" THEN pc' = "L59" /\ UNCHANGED raised
       ELSE IF ~download THEN Raise("RuntimeError: not found")
       ELSE pc' = "L58" /\ UNCHANGED raised
    /\ UNCHANGED <<args, fs, fsAtCall, instance, ret>>

\* Line 58: download_url(url, root). The collaborator raises, or writes a
\* file into root: root/DR-VCTK.zip with the expected content or another
\* content, or (for a url whose last component is another name) another file.
Download ==
    /\ pc = "L58"
    /\ calls' = Append(calls, <<"download_url", url, "root">>)
    /\ \/ Raise("DownloadError") /\ UNCHANGED archive
       \/ /\ archive' \in {"good", "corrupt"}
          /\ pc' = "L59"
          /\ UNCHANGED raised
       \/ /\ url # "_URL"
          /\ pc' = "L59"
          /\ UNCHANGED <<archive, raised>>
    /\ UNCHANGED <<args, pathIsDir, fsAtCall, instance, ret>>

\* A variant of _validate_checksum that drops validate_file's answer.
_validate_checksum_unchecked ==
    /\ pc = "L59"
    /\ IF archive = "absent"
       THEN Raise("FileNotFoundError") /\ UNCHANGED calls
       ELSE /\ calls' = Append(calls, <<"validate_file", archive = "good">>)
            /\ pc' = "L60"
            /\ UNCHANGED raised
    /\ UNCHANGED <<args, fs, fsAtCall, instance, ret>>

\* Lines 59, 65-70: self._validate_checksum(archive). open() raises when
\* the archive is not there; validate_file compares the md5 to _CHECKSUM.
_validate_checksum ==
    /\ pc = "L59"
    /\ IF archive = "absent"
       THEN Raise("FileNotFoundError") /\ UNCHANGED calls
       ELSE /\ calls' = Append(calls, <<"validate_file", archive = "good">>)
            /\ IF archive # "good" THEN Raise("RuntimeError: hash")
               ELSE pc' = "L60" /\ UNCHANGED raised
    /\ UNCHANGED <<args, fs, fsAtCall, instance, ret>>

\* Line 60: extract_archive(archive, root). The collaborator unpacks the
\* dataset root, or raises, having created the dataset root or not.
Extract ==
    /\ pc = "L60"
    /\ calls' = Append(calls, <<"extract_archive", "archive", "root">>)
    /\ \/ pathIsDir' = TRUE /\ pc' = "L62" /\ UNCHANGED raised
       \/ pathIsDir' \in BOOLEAN /\ Raise("ExtractError")
    /\ UNCHANGED <<args, archive, fsAtCall, instance, ret>>

\* Lines 62-63 when open(filepath) raises: no config file at the path.
LoadConfigNoFile ==
    /\ pc = "L62"
    /\ calls' = Append(calls, <<"open", "config">>)
    /\ Raise("FileNotFoundError")
    /\ UNCHANGED <<args, fs, fsAtCall, instance, ret>>

\* Lines 62-63: self._config = self._load_config(self._config_filepath);
\* self._filename_list = sorted(self._config).
LoadConfig(content) ==
    /\ pc = "L62"
    /\ calls' = Append(calls, <<"open", "config">>)
    /\ configFile' = content
    /\ LET r == _load_config(content, subset)
       IN  IF r.raised
           THEN Raise("ValueError") /\ UNCHANGED <<_config, _filename_list>>
           ELSE /\ _config' = r.config
                /\ _filename_list' = Sorted(DOMAIN r.config)
                /\ pc' = "ready"
                /\ UNCHANGED raised
    /\ UNCHANGED <<args, fs, fsAtCall, ret>>

\* ---------------------------------------------------- __getitem__, __len__
__len__ == Len(_filename_list)

CleanDir == "clean"
NoisyDir == "device-recorded"

\* torchaudio.load(path) when it returns: the waveform and sample rate of the
\* file at path.
Decoded(dir, filename) == <<[waveform |-> <<dir, filename>>], "sample_rate">>

\* The value _load_dr_vctk_item returns for the ids it split the filename into.
Item(filename, ids, cleanOk, noisyOk) ==
    IF Len(ids) # 2 THEN [raised |-> "ValueError", value |-> <<>>]
    ELSE IF filename \notin DOMAIN _config
         THEN [raised |-> "KeyError", value |-> <<>>]
    ELSE IF ~cleanOk \/ ~noisyOk
         THEN [raised |-> "DecodeError", value |-> <<>>]
    ELSE [raised |-> "",
          value |-> <<Decoded(CleanDir, filename)[1],
                      Decoded(CleanDir, filename)[2],
                      Decoded(NoisyDir, filename)[1],
                      Decoded(NoisyDir, filename)[2],
                      ids[1], ids[2],
                      _config[filename][1], _config[filename][2]>>]

\* A variant of _load_dr_vctk_item that splits the whole filename on "_",
\* the extension not stripped.
_load_dr_vctk_item_unstripped(filename, cleanOk, noisyOk) ==
    Item(filename, Split(filename, "_"), cleanOk, noisyOk)

\* A variant of _load_dr_vctk_item that takes the last piece of
\* filename.split(".") ([-1] for [0]).
_load_dr_vctk_item_last(filename, cleanOk, noisyOk) ==
    Item(filename,
         Split(Split(filename, ".")[Len(Split(filename, "."))], "_"),
         cleanOk, noisyOk)

\* Lines 85-101. cleanOk, noisyOk: whether torchaudio.load returns for the
\* clean and for the noisy file.
_load_dr_vctk_item(filename, cleanOk, noisyOk) ==
    Item(filename, Split(Split(filename, ".")[1], "_"), cleanOk, noisyOk)

\* A variant of ListIndex that serves the last element for an index past the
\* end.
ListIndex_clamped(n, len) ==
    IF 0 <= n /\ n < len THEN n + 1
    ELSE IF n < 0 /\ 0 - len <= n THEN len + n + 1
    ELSE IF n >= len THEN len
    ELSE 0

\* list[n]: the position (from 1) a Python index n selects in a list of
\* length len, 0 when list[n] raises IndexError.
ListIndex(n, len) ==
    IF 0 <= n /\ n < len THEN n + 1
    ELSE IF n < 0 /\ 0 - len <= n THEN len + n + 1
    ELSE 0

\* Lines 113-114.
__getitem__(n, cleanOk, noisyOk) ==
    IF ListIndex(n, Len(_filename_list)) = 0
    THEN [raised |-> "IndexError", value |-> <<>>]
    ELSE _load_dr_vctk_item(_filename_list[ListIndex(n, Len(_filename_list))],
                            cleanOk, noisyOk)

\* The indices a caller passes: the list holds at most MaxRows names, so both
\* ends are out of range.
Indices == (0 - (MaxRows + 1)) .. MaxRows

\* dataset[n].
GetItem(n, cleanOk, noisyOk) ==
    /\ pc = "ready"
    /\ LET r == __getitem__(n, cleanOk, noisyOk)
       IN  ret' = [op |-> "getitem", n |-> n, decodes |-> <<cleanOk, noisyOk>>,
                   raised |-> r.raised, value |-> r.value]
    /\ UNCHANGED <<pc, args, fs, fsAtCall, calls, instance, raised>>

\* len(dataset).
Length ==
    /\ pc = "ready"
    /\ ret' = [op |-> "len", n |-> 0, decodes |-> <<TRUE, TRUE>>, raised |-> "",
               value |-> __len__]
    /\ UNCHANGED <<pc, args, fs, fsAtCall, calls, instance, raised>>

\* The contents of the config file in the runs that exercise provisioning:
\* the distributed shape for "train" (two header lines) and for "test" (one),
\* a file with a blank line after its rows, and an empty file.
ProvisionedFiles ==
    LET header == HeaderLine
        rows == Row(<<FnA2, <<"D">>, <<"1">> >>) \o Row(<<FnA, <<"E">>, <<"2">> >>)
    IN  { header \o header \o rows, header \o rows,
          header \o header \o rows \o <<NL>>, <<>> }

\* Every call a caller can make, under every outcome of the collaborators.
Next ==
    \/ \E s \in SubsetArgs, d \in BOOLEAN, u \in UrlArgs : Construct(s, d, u)
    \/ CheckSubset
    \/ CheckPath
    \/ CheckArchive
    \/ Download
    \/ _validate_checksum
    \/ Extract
    \/ LoadConfigNoFile
    \/ \E content \in ProvisionedFiles : LoadConfig(content)
    \/ \E n \in Indices, cleanOk \in BOOLEAN, noisyOk \in BOOLEAN :
          GetItem(n, cleanOk, noisyOk)
    \/ Length

Spec == Init /\ [][Next]_vars

\* The dataset over every manifest content: constructions with the default
\* download and url arguments where the dataset root is on disk, so that
\* __init__ goes from line 54 to lines 62-63.
InitMaterialized ==
    /\ Init
    /\ pathIsDir = TRUE
    /\ archive = "good"

NextMaterialized ==
    \/ \E s \in SubsetArgs : Construct(s, FALSE, "_URL")
    \/ CheckSubset
    \/ CheckPath
    \/ LoadConfigNoFile
    \/ \E content \in ManifestFiles : LoadConfig(content)
    \/ \E n \in Indices, cleanOk \in BOOLEAN, noisyOk \in BOOLEAN :
          GetItem(n, cleanOk, noisyOk)
    \/ Length

SpecMaterialized == InitMaterialized /\ [][NextMaterialized]_vars

\* ------------------------------------------------------------- claims
\* The positions in the call log of the calls of one collaborator.
CallsOf(name) == { i \in 1..Len(calls) : calls[i][1] = name }

Called(name) == CallsOf(name) # {}

\* __init__ found neither the dataset root nor the archive.
FoundNothing ==
    /\ Len(calls) >= 2
    /\ calls[1] = <<"is_dir", FALSE>>
    /\ calls[2] = <<"is_file", FALSE>>

\* __init__ found the dataset root.
FoundRoot == Len(calls) >= 1 /\ calls[1] = <<"is_dir", TRUE>>

\* C1: in a construction that found no dataset root, extract_archive is called
\* only right after validate_file has accepted the archive, and the
\* construction does not get past line 59 without a validate_file call; when
\* validate_file rejects the archive the construction has failed with the hash
\* RuntimeError, extract_archive has not been called and the dataset root is
\* still absent.
C1_ChecksumBeforeExtract ==
    /\ \A i \in CallsOf("extract_archive") :
          i > 1 /\ calls[i - 1] = <<"validate_file", TRUE>>
    /\ (pc \in {"L60", "L62", "ready"} /\ ~FoundRoot /\ calls # <<>>)
          => Called("validate_file")
    /\ (\E i \in CallsOf("validate_file") : calls[i][2] = FALSE)
          => /\ pc = "failed"
             /\ raised = "RuntimeError: hash"
             /\ ~Called("extract_archive")
             /\ pathIsDir = FALSE

\* A just downloaded archive was rejected by the checksum.
C1_Witness ==
    /\ raised = "RuntimeError: hash"
    /\ Called("download_url")
    /\ ~Called("extract_archive")

\* C2: a construction that found the dataset root calls none of download_url,
\* validate_file and extract_archive, and the dataset root and the archive are
\* as they were when it was called, whatever the download flag and the archive.
C2_RootPresentSkipsProvisioning ==
    FoundRoot =>
        /\ ~Called("download_url")
        /\ ~Called("validate_file")
        /\ ~Called("extract_archive")
        /\ <<pathIsDir, archive>> = fsAtCall

\* A construction with download set, and a corrupt archive beside the dataset
\* root, became an instance.
C2_Witness ==
    /\ pc = "ready"
    /\ FoundRoot
    /\ download
    /\ archive = "corrupt"

\* C3: with neither dataset root nor archive, a construction with download
\* false has failed with the not-found RuntimeError and has called none of
\* download_url, validate_file, extract_archive, and one with download true
\* calls download_url once, with (url, root); download_url is called in no
\* other construction.
C3_DownloadOnlyWhenBothAbsent ==
    /\ (FoundNothing /\ ~download)
          => /\ pc = "failed"
             /\ raised = "RuntimeError: not found"
             /\ ~Called("download_url")
             /\ ~Called("validate_file")
             /\ ~Called("extract_archive")
    /\ (FoundNothing /\ download /\ pc # "L58")
          => \E i \in 1..Len(calls) :
                /\ CallsOf("download_url") = {i}
                /\ calls[i] = <<"download_url", url, "root">>
    /\ Called("download_url") => (FoundNothing /\ download)

\* download_url was called with a caller's own url.
C3_Witness ==
    /\ FoundNothing
    /\ download
    /\ url = "custom"
    /\ Called("download_url")

\* C4: a construction with a subset outside _SUPPORTED_SUBSETS goes no further
\* than line 40: it makes no filesystem check and no collaborator call, reads
\* no config file, leaves the filesystem as it was, and when it has failed it
\* is with the subset RuntimeError.
C4_InvalidSubsetFailsBeforeIO ==
    subset \notin _SUPPORTED_SUBSETS =>
        /\ pc \in {"L40", "failed"}
        /\ pc = "failed" => raised = "RuntimeError: subset"
        /\ calls = <<>>
        /\ configFile = <<>>
        /\ <<pathIsDir, archive>> = fsAtCall

\* A construction with subset "valid" has failed.
C4_Witness ==
    /\ subset = "valid"
    /\ pc = "failed"
    /\ raised = "RuntimeError: subset"

\* What the claims about an instance are stated in: the lines of the file the
\* instance was built from, the lines after the header lines of its subset, a
\* line's tab-separated fields, and the parts of a filename.
Lines == FileLines(configFile)

HeaderCount == IF subset = "train" THEN 2 ELSE 1

DataLines == { k \in 1..Len(Lines) : k > HeaderCount }

\* A line's fields as the parser takes them, after line.strip().
Fields(k) == Split(Strip(Lines[k]), TAB)

\* A line's fields as written: the line without its newline, split on tabs.
WrittenFields(k) ==
    LET l == Lines[k]
    IN  Split(IF l # <<>> /\ l[Len(l)] = NL THEN SubSeq(l, 1, Len(l) - 1) ELSE l,
              TAB)

CountChar(s, c) == Cardinality({ i \in 1..Len(s) : s[i] = c })

\* The filename up to its first ".", and the rest of it (the extension, its
\* "." included; empty when the filename has no ".").
RECURSIVE BeforeFirstDot(_)
BeforeFirstDot(s) ==
    IF s = <<>> \/ Head(s) = "." THEN <<>>
    ELSE <<Head(s)>> \o BeforeFirstDot(Tail(s))

RECURSIVE FromFirstDot(_)
FromFirstDot(s) ==
    IF s = <<>> \/ Head(s) = "." THEN s ELSE FromFirstDot(Tail(s))

\* The filename a returned sample was decoded from.
ServedFilename == ret.value[1].waveform[2]

\* C5 as stated: get(n) with n outside 0 <= n < length(), every negative n
\* included, raises IndexError and returns no sample (stated of the calls in
\* which both decodes would return).
C5_Original ==
    (/\ ret.op = "getitem"
     /\ ret.decodes = <<TRUE, TRUE>>
     /\ ~(0 <= ret.n /\ ret.n < __len__))
        => (ret.raised = "IndexError" /\ ret.value = <<>>)

\* C5, amended: get(n) raises IndexError, and returns no sample, exactly when
\* n >= length() or n < -length(); for -length() <= n < 0 it serves the
\* filename at index position length() + n.
C5_IndexErrorOutsideListRange ==
    ret.op = "getitem" =>
        /\ ret.raised = "IndexError" <=> (ret.n >= __len__ \/ ret.n < 0 - __len__)
        /\ ret.raised = "IndexError" => ret.value = <<>>
        /\ (ret.n < 0 /\ ret.raised = "")
              => ServedFilename = _filename_list[__len__ + ret.n + 1]

\* get(-1) on an instance of two samples returned the second.
C5_Witness ==
    /\ ret.op = "getitem"
    /\ ret.n = 0 - 1
    /\ ret.raised = ""
    /\ __len__ = 2
    /\ ServedFilename = _filename_list[2]

\* C6: in an instance the sample index holds exactly the manifest's keys, once
\* each, in strictly ascending order, and length() is the number of distinct
\* filenames on the lines of the file after the header lines, whatever the
\* order of those lines.
C6_IndexIsSortedKeys ==
    pc = "ready" =>
        /\ { _filename_list[i] : i \in 1..__len__ } = DOMAIN _config
        /\ __len__ = Cardinality(DOMAIN _config)
        /\ \A i, j \in 1..__len__ :
              i < j => StrLess(_filename_list[i], _filename_list[j])
        /\ \A k \in DataLines : Len(Fields(k)) >= 1
        /\ __len__ = Cardinality({ Fields(k)[1] : k \in DataLines })

\* An instance of two samples whose rows are in descending order in the file.
C6_Witness ==
    /\ pc = "ready"
    /\ __len__ = 2
    /\ Len(Lines) = HeaderCount + 2
    /\ Fields(HeaderCount + 1)[1] = _filename_list[2]
    /\ Fields(HeaderCount + 2)[1] = _filename_list[1]

\* C7: in an instance the lines skipped are the first two for "train" and the
\* first one for "test"; every line after them is non-empty and has three
\* fields, the manifest's keys are the first fields of those lines, and each
\* key maps to the second field and the integer value of the third field of
\* the last line that has the key as its first field.
C7_ManifestIsLastLineWins ==
    pc = "ready" =>
        /\ \A k \in DataLines : Lines[k] # <<>> /\ Len(Fields(k)) = 3
        /\ DOMAIN _config = { Fields(k)[1] : k \in DataLines }
        /\ \A f \in DOMAIN _config :
              LET last == CHOOSE k \in DataLines :
                              /\ Fields(k)[1] = f
                              /\ \A j \in DataLines : Fields(j)[1] = f => j <= k
              IN  /\ _config[f] = <<Fields(last)[2], IntValue(Fields(last)[3])>>
                  /\ _config[f][2] \in Int

\* A "test" manifest with the rows a_1.w D 1 and a_1.w E 2 after its header:
\* the one entry is that of the second row.
C7_Witness ==
    /\ pc = "ready"
    /\ subset = "test"
    /\ Len(Lines) = 3
    /\ Fields(2) = <<FnA, <<"D">>, <<"1">> >>
    /\ Fields(3) = <<FnA, <<"E">>, <<SP, "2">> >>
    /\ _config = [f \in {FnA} |-> << <<"E">>, 2 >>]

\* There is no instance: __init__ raised ValueError and nothing of a manifest
\* or an index is there.
ParseAborted ==
    /\ pc = "failed"
    /\ raised = "ValueError"
    /\ _config = EmptyDict
    /\ _filename_list = <<>>

\* C8 as stated: if a line after the header lines does not split into exactly
\* three tab-separated fields, the construction is aborted.
C8_Original ==
    (\E k \in DataLines : Len(WrittenFields(k)) # 3) => ParseAborted

\* C8, amended: if a line after the header lines, once its leading and
\* trailing whitespace (tabs included) is stripped, does not split into
\* exactly three tab-separated fields, the construction is aborted.
C8_MalformedLineAbortsConstruction ==
    (\E k \in DataLines : Len(Fields(k)) # 3) => ParseAborted

\* A "test" manifest whose first row is well formed and whose second has two
\* fields: the construction is aborted and the first row's entry is not kept.
C8_Witness ==
    /\ ParseAborted
    /\ subset = "test"
    /\ Len(Lines) = 3
    /\ Len(Fields(2)) = 3
    /\ Len(Fields(3)) = 2

\* C9: when get(n) with 0 <= n < length() returns, its speaker_id and
\* utterance_id joined by "_" and followed by the extension (the filename from
\* its first "." on) are the filename at index position n, its source and
\* channel_id are the manifest's entry for that filename, and its two
\* waveforms are decoded from that filename in the clean and the noisy
\* directory.
C9_SampleReconstructsFilename ==
    (ret.op = "getitem" /\ ret.raised = "" /\ 0 <= ret.n /\ ret.n < __len__)
        => LET f == _filename_list[ret.n + 1]
               v == ret.value
           IN  /\ Len(v) = 8
               /\ Join(<<v[5], v[6]>>, "_") \o FromFirstDot(f) = f
               /\ <<v[7], v[8]>> = _config[f]
               /\ v[1].waveform = <<CleanDir, f>>
               /\ v[3].waveform = <<NoisyDir, f>>

\* get(1) on an instance of two samples returned the second sample.
C9_Witness ==
    /\ ret.op = "getitem"
    /\ ret.raised = ""
    /\ ret.n = 1
    /\ __len__ = 2
    /\ ret.value[5] = <<"a">>
    /\ ret.value[6] = <<"2">>
    /\ ret.value[8] = 1

\* C10 as stated: get(n) for a filename that does not have exactly one "." and
\* exactly one "_" raises the decomposition error and returns no sample
\* (stated of the calls in which both decodes would return).
C10_Original ==
    (/\ ret.op = "getitem"
     /\ ret.decodes = <<TRUE, TRUE>>
     /\ 0 <= ret.n /\ ret.n < __len__)
        => LET f == _filename_list[ret.n + 1]
           IN  (CountChar(f, ".") # 1 \/ CountChar(f, "_") # 1)
                   => (ret.raised = "ValueError" /\ ret.value = <<>>)

\* C10, amended: get(n) raises the decomposition error, and returns no sample,
\* exactly when the part of the filename before its first "." does not hold
\* exactly one "_" (what follows the first ".", further dots and underscores
\* included, and a missing "." are tolerated); get(n) for any other filename
\* of the instance returns exactly when both decodes return.
C10_DecompositionError ==
    (ret.op = "getitem" /\ 0 <= ret.n /\ ret.n < __len__)
        => LET f == _filename_list[ret.n + 1]
               stemOk == CountChar(BeforeFirstDot(f), "_") = 1
           IN  /\ ret.raised = "ValueError" <=> ~stemOk
               /\ ret.raised = "ValueError" => ret.value = <<>>
               /\ stemOk => (ret.raised = "" <=> (ret.decodes = <<TRUE, TRUE>>))

\* get(n) raised the decomposition error for a filename without "_" in an
\* instance that also holds a filename of the documented shape.
C10_Witness ==
    /\ ret.op = "getitem"
    /\ ret.raised = "ValueError"
    /\ __len__ = 2
    /\ ret.n \in {0, 1}
    /\ _filename_list[ret.n + 1] = FnNoUnderscore
    /\ FnA \in DOMAIN _config

====
